---- MODULE Spec2Model ----
(***************************************************************************)
(* Model of src/nvidia/src/kernel/gpu/bif/arch/ada/kernel_bif_ad102.c:     *)
(*   kbifPreOsGlobalErotGrantRequest_AD102  (eRoT grant handshake)         *)
(*   kbifInitXveRegMap_AD102                (XVE register map set-up)      *)
(*   _kbifPreOsCheckErotGrantAllowed_AD102  (poll predicate)               *)
(* The register field codec (FLD_TEST_DRF / FLD_SET_DRF), the field layout *)
(* of NV_PBUS_SW_GLOBAL_EROT_GRANT, gpuTimeoutCondWait and                 *)
(* kbifInitXveRegMap_GM107 live outside this file; they are modelled from  *)
(* their contracts in spec.md (sections 4.1, 4.2, 4.4).                    *)
(***************************************************************************)
EXTENDS Integers, Sequences, FiniteSets, TLC

(***************************************************************************)
(* Bounds of the model.                                                    *)
(***************************************************************************)
\* largest poll timeout, in clock ticks
MaxTimeout == 2
\* largest clock advance of one sleep between two predicate checks
MaxStep == 2

(***************************************************************************)
(* RegisterFieldCodec (spec.md 4.1).  A 32-bit register value is the set   *)
(* of the positions of its one bits, so that all 32 bits are kept.  A      *)
(* field is [shift, width]; a width of zero is the descriptor whose mask   *)
(* selects zero bits.                                                      *)
(***************************************************************************)
\* register values are 32 bits wide
RegWidth == 32
BitPos == 0..(RegWidth - 1)

\* the one bits of a natural number (a field's encoded state), from bit i up
RECURSIVE BitsFrom(_, _)
BitsFrom(n, i) ==
    IF n = 0 THEN {}
    ELSE (IF n % 2 = 1 THEN {i} ELSE {}) \cup BitsFrom(n \div 2, i + 1)
Bits(n) == BitsFrom(n, 0)

DRF_SHIFTMASK(f) == { i \in f.shift..(f.shift + f.width - 1) : i \in BitPos }
DRF_VAL(f, v) == { i - f.shift : i \in v \cap DRF_SHIFTMASK(f) }
DRF_NUM(f, c) == { i + f.shift : i \in Bits(c) } \cap DRF_SHIFTMASK(f)

\* testField(value, descriptor, expectedState)
FLD_TEST_DRF(f, c, v) ==
    IF DRF_SHIFTMASK(f) = {} THEN FALSE ELSE DRF_VAL(f, v) = Bits(c)

\* setField(value, descriptor, newState): bits outside the mask are kept
FLD_SET_DRF(f, c, v) == (v \ DRF_SHIFTMASK(f)) \cup DRF_NUM(f, c)

(***************************************************************************)
(* Fields of NV_PBUS_SW_GLOBAL_EROT_GRANT and their encoded states.        *)
(***************************************************************************)
GRANT_REQUEST == [shift |-> 0, width |-> 1]
GRANT_ALLOW   == [shift |-> 1, width |-> 1]
GRANT_VALID   == [shift |-> 2, width |-> 1]
REQUEST_SET == 1
ALLOW_NO    == 0
ALLOW_YES   == 1
VALID_NO    == 0
VALID_YES   == 1

\* the bits of the register that belong to none of the three fields
OtherBits == BitPos \ (DRF_SHIFTMASK(GRANT_REQUEST) \cup DRF_SHIFTMASK(GRANT_ALLOW)
                          \cup DRF_SHIFTMASK(GRANT_VALID))
\* the register contents the model lets the hardware hold: every state of
\* the three fields, with the other bits all clear or all set
RegValues == { f \cup o : f \in SUBSET (BitPos \ OtherBits), o \in {{}, OtherBits} }

NV_OK                   == "NV_OK"
NV_ERR_TIMEOUT          == "NV_ERR_TIMEOUT"
NV_ERR_NO_MEMORY        == "NV_ERR_NO_MEMORY"
NV_ERR_INVALID_ARGUMENT == "NV_ERR_INVALID_ARGUMENT"
NV_ERR_GENERIC          == "NV_ERR_GENERIC"
NoValue == "none"

VARIABLES
    hwReg,       \* content of NV_PBUS_SW_GLOBAL_EROT_GRANT
    pc,          \* position of the thread in the handshake
    reg,         \* local 'reg' of kbifPreOsGlobalErotGrantRequest_AD102
    status,      \* local 'status' / the value returned
    timeout,     \* timeout of the running poll, in ticks
    elapsed,     \* ticks elapsed since the poll began
    entryReg,    \* history: value returned by the entry read (line 56)
    lastRead,    \* history: value returned by the latest GPU_REG_RD32
    nReads,      \* history: GPU_REG_RD32 calls of this invocation
    nWrites,     \* history: GPU_REG_WR32 calls of this invocation
    nWaits,      \* history: gpuTimeoutCondWait calls of this invocation
    pollAllow,   \* history: ALLOW field of each value the poll predicate read
    nSleeps,     \* history: sleeps of the poll
    hsPrinted,   \* history: NV_PRINTF(LEVEL_ERROR) calls of this invocation
    ctrlActed,   \* history: the controller has stored to the register since the entry read
    ctrlGranted, \* history: the controller has set ALLOW to YES in this invocation
    grantInTime, \* history: ALLOW is YES ever since the controller set it,
                 \*          during the poll and before its deadline
    xveRegmapRef,\* pKernelBif->xveRegmapRef[0..1]
    nAllocOk,    \* buffers portMemAllocNonPaged has handed out to this device
    lastFunc,    \* history: <<func>> of the latest kbifInitXveRegMap_AD102 call
    retStatus,   \* history: the status that call returned
    preRegmap,   \* history: xveRegmapRef as that call found it
    allocSizes,  \* history: the sizes that call asked portMemAllocNonPaged for
    ctlSize,     \* history: what kbifGetMSIXTableVectorControlSize_HAL returned
    gm107Args,   \* history: 'func' of each kbifInitXveRegMap_GM107 call it made
    gm107Ret,    \* history: what kbifInitXveRegMap_GM107 returned to it
    rmPrinted,   \* history: NV_PRINTF(LEVEL_ERROR) calls of that call
    rmAsserted,  \* history: assertions that call tripped
    attached,    \* chip architecture of the attached device, or "none"
    binding,     \* the implementation bound to each operation of the device
    codec        \* inputs and results of the register field codec operations

hsVars == <<hwReg, pc, reg, status, timeout, elapsed, entryReg, lastRead, nReads,
            nWrites, nWaits, pollAllow, nSleeps, hsPrinted, ctrlActed, ctrlGranted,
            grantInTime>>

rmVars == <<xveRegmapRef, nAllocOk, lastFunc, retStatus, preRegmap, allocSizes,
            ctlSize, gm107Args, gm107Ret, rmPrinted, rmAsserted>>

\* the device's dispatch state and the codec's inputs and results
dvVars == <<attached, binding>>
cdVars == <<codec>>

vars == <<hsVars, rmVars, dvVars, cdVars>>

HsInit ==
    /\ hwReg \in RegValues
    /\ pc = "idle"
    /\ reg = {}
    /\ status = NV_OK
    /\ timeout = 0
    /\ elapsed = 0
    /\ entryReg = {}
    /\ lastRead = {}
    /\ nReads = 0
    /\ nWrites = 0
    /\ nWaits = 0
    /\ pollAllow = <<>>
    /\ nSleeps = 0
    /\ hsPrinted = 0
    /\ ctrlActed = FALSE
    /\ ctrlGranted = FALSE
    /\ grantInTime = FALSE

(***************************************************************************)
(* kbifPreOsGlobalErotGrantRequest_AD102                                   *)
(***************************************************************************)
\* mutant of NoErot: the VALID test compares with the wrong state
NoErot_WrongState(r) == FLD_TEST_DRF(GRANT_VALID, VALID_YES, r)

\* line 59: "Invalid value suggests that there is no ERoT"
NoErot(r) == FLD_TEST_DRF(GRANT_VALID, VALID_NO, r)

\* mutant of the predicate: it tests the REQUEST field the handshake itself
\* has just set, instead of ALLOW
CheckErotGrantAllowed_TestsRequest(r) ==
    FLD_TEST_DRF(GRANT_REQUEST, REQUEST_SET, r)

\* mutant of the predicate: it tests ALLOW for NO instead of YES
CheckErotGrantAllowed_Inverted(r) ==
    FLD_TEST_DRF(GRANT_ALLOW, ALLOW_NO, r)

\* mutant of kbifPreOsCheckErotGrantAllowed_AD102: the VALID field is tested
CheckErotGrantAllowed_TestsValid(r) ==
    FLD_TEST_DRF(GRANT_VALID, VALID_YES, r)

\* lines 143-145: the test _kbifPreOsCheckErotGrantAllowed_AD102 applies to
\* the value it has just read
kbifPreOsCheckErotGrantAllowed_AD102(r) ==
    FLD_TEST_DRF(GRANT_ALLOW, ALLOW_YES, r)

\* mutant of RequestSet: the REQUEST bit is flipped rather than set
RequestSet_Toggles(r) ==
    IF FLD_TEST_DRF(GRANT_REQUEST, REQUEST_SET, r)
    THEN r \ DRF_SHIFTMASK(GRANT_REQUEST)
    ELSE r \cup DRF_NUM(GRANT_REQUEST, REQUEST_SET)

\* mutant of RequestSet: the register value is built from the REQUEST field
\* alone, the other bits of the entry read are dropped
RequestSet_DropsOtherBits(r) == DRF_NUM(GRANT_REQUEST, REQUEST_SET)

\* line 70: reg = FLD_SET_DRF(_PBUS, _SW_GLOBAL_EROT_GRANT, _REQUEST, _SET, reg)
RequestSet(r) == FLD_SET_DRF(GRANT_REQUEST, REQUEST_SET, r)

\* lines 55-62: the call, the entry read and the VALID test
HsEntry ==
    /\ pc \in {"idle", "done"}
    /\ reg' = hwReg
    /\ entryReg' = hwReg
    /\ lastRead' = hwReg
    /\ nReads' = 1
    /\ status' = NV_OK
    /\ pc' = IF NoErot(hwReg) THEN "done" ELSE "check"
    /\ nWrites' = 0
    /\ nWaits' = 0
    /\ pollAllow' = <<>>
    /\ nSleeps' = 0
    /\ hsPrinted' = 0
    /\ timeout' = 0
    /\ elapsed' = 0
    /\ ctrlActed' = FALSE
    /\ ctrlGranted' = FALSE
    /\ grantInTime' = FALSE
    /\ UNCHANGED hwReg
    /\ UNCHANGED <<rmVars, dvVars, cdVars>>

\* mutant of HsCheck: the early return of lines 65-68 is missing
HsCheck_NoEarlyReturn ==
    /\ pc = "check"
    /\ lastRead' = hwReg
    /\ nReads' = nReads + 1
    /\ pc' = "write"
    /\ reg' = FLD_SET_DRF(GRANT_REQUEST, REQUEST_SET, reg)
    /\ UNCHANGED <<hwReg, status, timeout, elapsed, entryReg, nWrites, nWaits,
                   pollAllow, nSleeps, hsPrinted, ctrlActed, ctrlGranted,
                   grantInTime>>
    /\ UNCHANGED <<rmVars, dvVars, cdVars>>

\* lines 64-70: the already-granted check (a second read) and, when it
\* fails, the REQUEST field set in the local copy of the entry read
HsCheck ==
    /\ pc = "check"
    /\ lastRead' = hwReg
    /\ nReads' = nReads + 1
    /\ IF kbifPreOsCheckErotGrantAllowed_AD102(hwReg)
       THEN /\ pc' = "done"
            /\ reg' = reg
       ELSE /\ pc' = "write"
            /\ reg' = RequestSet(reg)
    /\ UNCHANGED <<hwReg, status, timeout, elapsed, entryReg, nWrites, nWaits,
                   pollAllow, nSleeps, hsPrinted, ctrlActed, ctrlGranted,
                   grantInTime>>
    /\ UNCHANGED <<rmVars, dvVars, cdVars>>

\* lines 71-73: the register write, then the call of gpuTimeoutCondWait
\* with a NULL timeout (the GPU's default timeout, here any budget)
HsWrite ==
    /\ pc = "write"
    /\ hwReg' = reg
    /\ nWrites' = nWrites + 1
    /\ nWaits' = nWaits + 1
    /\ \E t \in 0..MaxTimeout : timeout' = t
    /\ elapsed' = 0
    /\ grantInTime' = FALSE
    /\ pc' = "poll"
    /\ UNCHANGED <<reg, status, entryReg, lastRead, nReads, pollAllow, nSleeps,
                   hsPrinted, ctrlActed, ctrlGranted>>
    /\ UNCHANGED <<rmVars, dvVars, cdVars>>

(***************************************************************************)
(* gpuTimeoutCondWait, as BoundedPoll of spec.md 4.2: the predicate is     *)
(* evaluated first; only when it is false is the deadline looked at.       *)
(***************************************************************************)
PollCheck ==
    /\ pc = "poll"
    /\ lastRead' = hwReg
    /\ nReads' = nReads + 1
    /\ pollAllow' = Append(pollAllow, DRF_VAL(GRANT_ALLOW, hwReg))
    /\ IF kbifPreOsCheckErotGrantAllowed_AD102(hwReg)
       THEN /\ status' = NV_OK
            /\ pc' = "ret"
       ELSE /\ status' = status
            /\ pc' = "deadline"
    /\ UNCHANGED <<hwReg, reg, timeout, elapsed, entryReg, nWrites, nWaits, nSleeps,
                   hsPrinted, ctrlActed, ctrlGranted, grantInTime>>
    /\ UNCHANGED <<rmVars, dvVars, cdVars>>

PollDeadline ==
    /\ pc = "deadline"
    /\ IF elapsed >= timeout
       THEN /\ status' = NV_ERR_TIMEOUT
            /\ pc' = "ret"
            /\ UNCHANGED <<elapsed, nSleeps>>
       ELSE /\ \E d \in 1..MaxStep : elapsed' = elapsed + d
            /\ nSleeps' = nSleeps + 1
            /\ pc' = "poll"
            /\ UNCHANGED status
    /\ UNCHANGED <<hwReg, reg, timeout, entryReg, lastRead, nReads, nWrites, nWaits,
                   pollAllow, hsPrinted, ctrlActed, ctrlGranted, grantInTime>>
    /\ UNCHANGED <<rmVars, dvVars, cdVars>>

\* mutant of HsReturn: the failure is logged but NV_OK is returned
HsReturn_SwallowsError ==
    /\ pc = "ret"
    /\ hsPrinted' = IF status # NV_OK THEN hsPrinted + 1 ELSE hsPrinted
    /\ status' = NV_OK
    /\ pc' = "done"
    /\ UNCHANGED <<hwReg, reg, timeout, elapsed, entryReg, lastRead,
                   nReads, nWrites, nWaits, pollAllow, nSleeps, ctrlActed, ctrlGranted,
                   grantInTime>>
    /\ UNCHANGED <<rmVars, dvVars, cdVars>>

\* mutant of HsReturn: a failed wait makes the handshake write and wait again
HsReturn_Retries ==
    /\ pc = "ret"
    /\ hsPrinted' = IF status # NV_OK THEN 1 ELSE hsPrinted
    /\ pc' = IF status # NV_OK THEN "write" ELSE "done"
    /\ nWrites' = IF status # NV_OK THEN 0 ELSE nWrites
    /\ nWaits' = IF status # NV_OK THEN 0 ELSE nWaits
    /\ nReads' = IF status # NV_OK THEN 2 ELSE nReads
    /\ pollAllow' = IF status # NV_OK THEN <<>> ELSE pollAllow
    /\ nSleeps' = IF status # NV_OK THEN 0 ELSE nSleeps
    /\ UNCHANGED <<hwReg, reg, status, timeout, elapsed, entryReg, lastRead,
                   ctrlActed, ctrlGranted, grantInTime>>
    /\ UNCHANGED <<rmVars, dvVars, cdVars>>

\* mutant of HsReturn: after a failed wait the handshake writes the request
\* and waits a second time
HsReturn_RetriesOnce ==
    /\ pc = "ret"
    /\ hsPrinted' = IF status # NV_OK THEN hsPrinted + 1 ELSE hsPrinted
    /\ pc' = IF status # NV_OK /\ nWrites < 2 THEN "write" ELSE "done"
    /\ UNCHANGED <<hwReg, reg, status, timeout, elapsed, entryReg, lastRead,
                   nReads, nWrites, nWaits, pollAllow, nSleeps, ctrlActed, ctrlGranted,
                   grantInTime>>
    /\ UNCHANGED <<rmVars, dvVars, cdVars>>

\* lines 74-79: the diagnostic on a failed wait, and the return
HsReturn ==
    /\ pc = "ret"
    /\ hsPrinted' = IF status # NV_OK THEN hsPrinted + 1 ELSE hsPrinted
    /\ pc' = "done"
    /\ UNCHANGED <<hwReg, reg, status, timeout, elapsed, entryReg, lastRead,
                   nReads, nWrites, nWaits, pollAllow, nSleeps, ctrlActed, ctrlGranted,
                   grantInTime>>
    /\ UNCHANGED <<rmVars, dvVars, cdVars>>

(***************************************************************************)
(* The companion controller (preOs / eRoT): it owns the other side of the  *)
(* register and may store any value at any time.                           *)
(***************************************************************************)
InPoll == pc \in {"poll", "deadline"}

Controller ==
    /\ \E v \in RegValues \ {hwReg} :
        /\ hwReg' = v
        /\ ctrlActed' = (ctrlActed \/ pc # "idle")
        /\ ctrlGranted' = (ctrlGranted \/ (pc \notin {"idle", "done"}
                              /\ FLD_TEST_DRF(GRANT_ALLOW, ALLOW_YES, v)))
        /\ grantInTime' =
              IF ~FLD_TEST_DRF(GRANT_ALLOW, ALLOW_YES, v) THEN FALSE
              ELSE IF FLD_TEST_DRF(GRANT_ALLOW, ALLOW_YES, hwReg) THEN grantInTime
              ELSE InPoll /\ (pc = "poll" \/ elapsed < timeout)
    /\ UNCHANGED <<pc, reg, status, timeout, elapsed, entryReg, lastRead,
                   nReads, nWrites, nWaits, pollAllow, nSleeps, hsPrinted>>
    /\ UNCHANGED <<rmVars, dvVars, cdVars>>

(***************************************************************************)
(* kbifInitXveRegMap_AD102 and what it calls.                              *)
(***************************************************************************)
\* lines 35-36: the AD102 mask tables (NV_PCFG_XVE_REGISTER_VALID_MAP and
\* NV_PCFG_XVE_REGISTER_WR_MAP), and the tables of the GM107 variant
RegMapTables ==
    [ xveRegMapValid       |-> <<15, 7, 3>>,
      xveRegMapWrite       |-> <<5, 1>>,
      xveRegMapValid_GM107 |-> <<15, 7, 3, 1>>,
      xveRegMapWrite_GM107 |-> <<5>>,
      NULL                 |-> <<>> ]
NV_ARRAY_ELEMENTS(t) == Len(RegMapTables[t])

\* a buffer is [handle, size]; handle 0 is the NULL pointer
NullBuf == [handle |-> 0, size |-> {}]

\* an xveRegmapRef entry of a KernelBif that no call has touched
ZeroEntry ==
    [ nFunc |-> 0, xveRegMapValid |-> "NULL", xveRegMapWrite |-> "NULL",
      numXveRegMapValid |-> 0, numXveRegMapWrite |-> 0,
      bufBootConfigSpace |-> "NULL", bufMsixTable |-> NullBuf ]

\* the 'func' arguments (NvU8) the model calls with
Funcs == {0, 1, 2, 255}

\* the counts kbifGetMSIXTableVectorControlSize_HAL may return (NvU32, as
\* bit positions): 0, 1, 3, 2^30 and 2^32 - 1
ControlSizes == { {}, {0}, {0, 1}, {30}, BitPos }

\* v << k in an unsigned type of w bits
ShiftLeft(v, k, w) == { i + k : i \in v } \cap (0..(w - 1))

\* line 118: controlSize * 4 * sizeof(NvU32); controlSize * 4 is computed in
\* NvU32, the product with sizeof in the 64-bit size_t
MsixTableSize(controlSize) == ShiftLeft(ShiftLeft(controlSize, 2, 32), 2, 64)

RmInit ==
    /\ xveRegmapRef = [f \in {0, 1} |-> ZeroEntry]
    /\ nAllocOk = 0
    /\ lastFunc = <<>>
    /\ retStatus = NV_OK
    /\ preRegmap = [f \in {0, 1} |-> ZeroEntry]
    /\ allocSizes = <<>>
    /\ ctlSize = {}
    /\ gm107Args = <<>>
    /\ gm107Ret = NoValue
    /\ rmPrinted = 0
    /\ rmAsserted = 0

\* kbifInitXveRegMap_GM107, the older variant (spec.md 4.4, 4.5): it sets up
\* the entry of the function it is called for and reports a status
kbifInitXveRegMap_GM107(map, func, st) ==
    IF func \in {0, 1} /\ st = NV_OK
    THEN [map EXCEPT ![func] =
            [ nFunc |-> func,
              xveRegMapValid |-> "xveRegMapValid_GM107",
              xveRegMapWrite |-> "xveRegMapWrite_GM107",
              numXveRegMapValid |-> NV_ARRAY_ELEMENTS("xveRegMapValid_GM107"),
              numXveRegMapWrite |-> NV_ARRAY_ELEMENTS("xveRegMapWrite_GM107"),
              bufBootConfigSpace |-> IF func = 0 THEN "gpuBootConfigSpace"
                                     ELSE "azaliaBootConfigSpace",
              bufMsixTable |-> map[func].bufMsixTable ]]
    ELSE map
GM107Statuses(func) ==
    IF func \in {0, 1} THEN {NV_OK, NV_ERR_GENERIC} ELSE {NV_ERR_INVALID_ARGUMENT}

\* portMemAllocNonPaged: a fresh buffer of the size asked for, or NULL
portMemAllocNonPaged(size, ok) ==
    IF ok THEN [handle |-> nAllocOk + 1, size |-> size] ELSE NullBuf

\* mutant of IsFn1: every non-zero function is taken for function 1
IsFn1_AnyNonZero(func) == func >= 1
\* mutant of NeedsMsixTable: the buffer is allocated on every call
NeedsMsixTable_Always(buf) == TRUE

\* line 107
IsFn0(func) == func = 0
\* line 121
IsFn1(func) == func = 1
\* line 117: the buffer is allocated only when the entry holds none
NeedsMsixTable(buf) == buf = NullBuf

\* mutant of Fn0Fields: the two table counts are exchanged
Fn0Fields_CountsSwapped(e) ==
    [e EXCEPT !.nFunc = 0,
              !.xveRegMapValid = "xveRegMapValid",
              !.xveRegMapWrite = "xveRegMapWrite",
              !.numXveRegMapValid = NV_ARRAY_ELEMENTS("xveRegMapWrite"),
              !.numXveRegMapWrite = NV_ARRAY_ELEMENTS("xveRegMapValid"),
              !.bufBootConfigSpace = "gpuBootConfigSpace"]

\* lines 109-114: the fields of entry 0 set before the buffer is looked at
Fn0Fields(e) ==
    [e EXCEPT !.nFunc = 0,
              !.xveRegMapValid = "xveRegMapValid",
              !.xveRegMapWrite = "xveRegMapWrite",
              !.numXveRegMapValid = NV_ARRAY_ELEMENTS("xveRegMapValid"),
              !.numXveRegMapWrite = NV_ARRAY_ELEMENTS("xveRegMapWrite"),
              !.bufBootConfigSpace = "gpuBootConfigSpace"]

\* mutant of InitFn0: a failed allocation wipes the whole register map
InitFn0_WipesMapOnFailure(func) ==
    \E controlSize \in ControlSizes, allocOk \in BOOLEAN :
      LET e    == Fn0Fields(xveRegmapRef[0])
          need == NeedsMsixTable(e.bufMsixTable)
          buf  == IF need
                  THEN portMemAllocNonPaged(MsixTableSize(controlSize), allocOk)
                  ELSE e.bufMsixTable
      IN /\ xveRegmapRef' = IF buf = NullBuf
                            THEN [f \in {0, 1} |-> ZeroEntry]
                            ELSE [xveRegmapRef EXCEPT ![0] = [e EXCEPT !.bufMsixTable = buf]]
         /\ nAllocOk' = IF need /\ buf # NullBuf THEN nAllocOk + 1 ELSE nAllocOk
         /\ allocSizes' = IF need THEN <<MsixTableSize(controlSize)>> ELSE <<>>
         /\ ctlSize' = controlSize
         /\ rmAsserted' = IF buf = NullBuf THEN 1 ELSE 0
         /\ retStatus' = IF buf = NullBuf THEN NV_ERR_NO_MEMORY ELSE NV_OK
         /\ lastFunc' = <<func>>
         /\ preRegmap' = xveRegmapRef
         /\ gm107Args' = <<>>
         /\ gm107Ret' = NoValue
         /\ rmPrinted' = 0
         /\ UNCHANGED <<hsVars, dvVars, cdVars>>

\* lines 107-120 and 133: func == 0
InitFn0(func) ==
    \E controlSize \in ControlSizes, allocOk \in BOOLEAN :
      LET e    == Fn0Fields(xveRegmapRef[0])
          need == NeedsMsixTable(e.bufMsixTable)
          buf  == IF need
                  THEN portMemAllocNonPaged(MsixTableSize(controlSize), allocOk)
                  ELSE e.bufMsixTable
      IN /\ xveRegmapRef' = [xveRegmapRef EXCEPT ![0] = [e EXCEPT !.bufMsixTable = buf]]
         /\ nAllocOk' = IF need /\ buf # NullBuf THEN nAllocOk + 1 ELSE nAllocOk
         /\ allocSizes' = IF need THEN <<MsixTableSize(controlSize)>> ELSE <<>>
         /\ ctlSize' = controlSize
         /\ rmAsserted' = IF buf = NullBuf THEN 1 ELSE 0
         /\ retStatus' = IF buf = NullBuf THEN NV_ERR_NO_MEMORY ELSE NV_OK
         /\ lastFunc' = <<func>>
         /\ preRegmap' = xveRegmapRef
         /\ gm107Args' = <<>>
         /\ gm107Ret' = NoValue
         /\ rmPrinted' = 0
         /\ UNCHANGED <<hsVars, dvVars, cdVars>>

\* mutant of InitFn1: the status of the older variant is dropped
InitFn1_DropsStatus(func) ==
    \E st \in GM107Statuses(1) :
         /\ xveRegmapRef' = kbifInitXveRegMap_GM107(xveRegmapRef, 1, st)
         /\ gm107Args' = <<1>>
         /\ gm107Ret' = st
         /\ retStatus' = NV_OK
         /\ lastFunc' = <<func>>
         /\ preRegmap' = xveRegmapRef
         /\ allocSizes' = <<>>
         /\ ctlSize' = {}
         /\ rmPrinted' = 0
         /\ rmAsserted' = 0
         /\ UNCHANGED nAllocOk
         /\ UNCHANGED <<hsVars, dvVars, cdVars>>

\* mutant of InitFn1: once entry 1 has been set up, a further call for
\* func 1 is answered here and no longer routed to the older variant
InitFn1_RoutesOnlyOnce(func) ==
    \E st \in GM107Statuses(1) :
      LET first == xveRegmapRef[1] = ZeroEntry
      IN /\ xveRegmapRef' = IF first
                            THEN kbifInitXveRegMap_GM107(xveRegmapRef, 1, st)
                            ELSE xveRegmapRef
         /\ gm107Args' = IF first THEN <<1>> ELSE <<>>
         /\ gm107Ret' = IF first THEN st ELSE NoValue
         /\ retStatus' = IF first THEN st ELSE NV_OK
         /\ lastFunc' = <<func>>
         /\ preRegmap' = xveRegmapRef
         /\ allocSizes' = <<>>
         /\ ctlSize' = {}
         /\ rmPrinted' = 0
         /\ rmAsserted' = 0
         /\ UNCHANGED nAllocOk
         /\ UNCHANGED <<hsVars, dvVars, cdVars>>

\* lines 121-125 and 133: func == 1, "Init regmap for Fn1 using older HAL"
InitFn1(func) ==
    \E st \in GM107Statuses(1) :
         /\ xveRegmapRef' = kbifInitXveRegMap_GM107(xveRegmapRef, 1, st)
         /\ gm107Args' = <<1>>
         /\ gm107Ret' = st
         /\ retStatus' = st
         /\ lastFunc' = <<func>>
         /\ preRegmap' = xveRegmapRef
         /\ allocSizes' = <<>>
         /\ ctlSize' = {}
         /\ rmPrinted' = 0
         /\ rmAsserted' = 0
         /\ UNCHANGED nAllocOk
         /\ UNCHANGED <<hsVars, dvVars, cdVars>>

\* mutant of InitInvalid: the error is returned without the NV_PRINTF
InitInvalid_Silent(func) ==
         /\ rmPrinted' = 0
         /\ rmAsserted' = 1
         /\ retStatus' = NV_ERR_INVALID_ARGUMENT
         /\ lastFunc' = <<func>>
         /\ preRegmap' = xveRegmapRef
         /\ allocSizes' = <<>>
         /\ ctlSize' = {}
         /\ gm107Args' = <<>>
         /\ gm107Ret' = NoValue
         /\ UNCHANGED <<xveRegmapRef, nAllocOk>>
         /\ UNCHANGED <<hsVars, dvVars, cdVars>>

\* lines 126-133: any other func
InitInvalid(func) ==
         /\ rmPrinted' = 1
         /\ rmAsserted' = 1
         /\ retStatus' = NV_ERR_INVALID_ARGUMENT
         /\ lastFunc' = <<func>>
         /\ preRegmap' = xveRegmapRef
         /\ allocSizes' = <<>>
         /\ ctlSize' = {}
         /\ gm107Args' = <<>>
         /\ gm107Ret' = NoValue
         /\ UNCHANGED <<xveRegmapRef, nAllocOk>>
         /\ UNCHANGED <<hsVars, dvVars, cdVars>>

\* lines 95-134
kbifInitXveRegMap_AD102 ==
    \E func \in Funcs :
        IF IsFn0(func) THEN InitFn0(func)
        ELSE IF IsFn1(func) THEN InitFn1(func)
        ELSE InitInvalid(func)

(***************************************************************************)
(* ChipVariantDispatch (spec.md 4.5, 9): a table from (architecture,       *)
(* operation) to implementation, read once when the device is attached.    *)
(***************************************************************************)
Archs == {"AD102", "GM107"}

HalTable ==
    [ AD102 |-> [ grantRequest  |-> "kbifPreOsGlobalErotGrantRequest_AD102",
                  initXveRegMap |-> "kbifInitXveRegMap_AD102" ],
      GM107 |-> [ grantRequest  |-> "kbifPreOsGlobalErotGrantRequest_STUB",
                  initXveRegMap |-> "kbifInitXveRegMap_GM107" ] ]

NoBinding == [grantRequest |-> "none", initXveRegMap |-> "none"]

DvInit ==
    /\ attached = "none"
    /\ binding = NoBinding

\* device attach: the binding of every operation is resolved
DevAttach ==
    /\ attached = "none"
    /\ \E a \in Archs :
         /\ attached' = a
         /\ binding' = HalTable[a]
    /\ UNCHANGED <<hsVars, rmVars, cdVars>>

\* device detach: the binding is torn down with the device instance and its
\* register map; the grant register stays as the hardware holds it
DevDetach ==
    /\ attached # "none"
    /\ pc \in {"idle", "done"}
    /\ attached' = "none"
    /\ binding' = NoBinding
    /\ pc' = "idle"
    /\ reg' = {}
    /\ status' = NV_OK
    /\ timeout' = 0
    /\ elapsed' = 0
    /\ entryReg' = {}
    /\ lastRead' = {}
    /\ nReads' = 0
    /\ nWrites' = 0
    /\ nWaits' = 0
    /\ pollAllow' = <<>>
    /\ nSleeps' = 0
    /\ hsPrinted' = 0
    /\ ctrlActed' = FALSE
    /\ ctrlGranted' = FALSE
    /\ grantInTime' = FALSE
    /\ xveRegmapRef' = [f \in {0, 1} |-> ZeroEntry]
    /\ nAllocOk' = 0
    /\ lastFunc' = <<>>
    /\ retStatus' = NV_OK
    /\ preRegmap' = [f \in {0, 1} |-> ZeroEntry]
    /\ allocSizes' = <<>>
    /\ ctlSize' = {}
    /\ gm107Args' = <<>>
    /\ gm107Ret' = NoValue
    /\ rmPrinted' = 0
    /\ rmAsserted' = 0
    /\ UNCHANGED <<hwReg, cdVars>>

\* the operation is bound to the implementation of this file
BoundHere(op) == attached # "none" /\ binding[op] = HalTable["AD102"][op]

\* register-map initialization through the binding; the maps are built
\* before the handshake runs (spec.md 2)
DevInitXveRegMap ==
    /\ BoundHere("initXveRegMap")
    /\ pc = "idle"
    /\ kbifInitXveRegMap_AD102

\* the same operation on a device whose binding is the older variant
DevInitXveRegMapOlder ==
    /\ attached # "none"
    /\ binding.initXveRegMap = "kbifInitXveRegMap_GM107"
    /\ pc = "idle"
    /\ \E func \in Funcs : \E st \in GM107Statuses(func) :
         /\ xveRegmapRef' = kbifInitXveRegMap_GM107(xveRegmapRef, func, st)
         /\ gm107Args' = <<func>>
         /\ gm107Ret' = st
         /\ retStatus' = st
         /\ lastFunc' = <<func>>
         /\ preRegmap' = xveRegmapRef
         /\ allocSizes' = <<>>
         /\ ctlSize' = {}
         /\ rmPrinted' = 0
         /\ rmAsserted' = 0
         /\ UNCHANGED nAllocOk
    /\ UNCHANGED <<hsVars, dvVars, cdVars>>

\* the handshake through the binding, step by step
DevHsEntry      == BoundHere("grantRequest") /\ HsEntry
DevHsCheck      == BoundHere("grantRequest") /\ HsCheck
DevHsWrite      == BoundHere("grantRequest") /\ HsWrite
DevPollCheck    == BoundHere("grantRequest") /\ PollCheck
DevPollDeadline == BoundHere("grantRequest") /\ PollDeadline
DevHsReturn     == BoundHere("grantRequest") /\ HsReturn

\* the controller of an attached device, granting or withdrawing ALLOW
DevController ==
    /\ BoundHere("grantRequest")
    /\ \E c \in {ALLOW_NO, ALLOW_YES} :
         LET v == FLD_SET_DRF(GRANT_ALLOW, c, hwReg)
         IN /\ v # hwReg
            /\ hwReg' = v
            /\ ctrlActed' = (ctrlActed \/ pc # "idle")
            /\ ctrlGranted' = (ctrlGranted \/ (pc \notin {"idle", "done"}
                                  /\ c = ALLOW_YES))
            /\ grantInTime' = (c = ALLOW_YES /\ InPoll
                                  /\ (pc = "poll" \/ elapsed < timeout))
    /\ UNCHANGED <<pc, reg, status, timeout, elapsed, entryReg, lastRead,
                   nReads, nWrites, nWaits, pollAllow, nSleeps, hsPrinted>>
    /\ UNCHANGED <<rmVars, dvVars, cdVars>>

(***************************************************************************)
(* The register field codec as pure functions: inputs are drawn in the     *)
(* initial state, each action applies one operation to them.               *)
(***************************************************************************)
\* register values the codec is applied to
CodecValues ==
    { {}, BitPos, {0}, {1, 2}, {4, 6, 31}, {1, 4, 6}, BitPos \ {0, 5, 30} }

\* field descriptors: the three fields of the grant register, a 3-bit field,
\* the top two bits, and a descriptor whose mask selects no bit
Descriptors ==
    { GRANT_REQUEST, GRANT_ALLOW, GRANT_VALID,
      [shift |-> 4, width |-> 3], [shift |-> 30, width |-> 2],
      [shift |-> 5, width |-> 0] }

\* the encoded states of a field
FieldStates(d) == 0..((2 ^ d.width) - 1)

NoOut == [op |-> "none"]

CdIdle == codec = [op |-> "none", in |-> NoOut, out |-> NoOut]

CdDraw ==
    \E v \in CodecValues, w \in CodecValues, d \in Descriptors :
      \E s1 \in FieldStates(d), s2 \in FieldStates(d) :
         codec = [ op |-> "none",
                   in |-> [op |-> "in", v |-> v, w |-> w, d |-> d,
                           s1 |-> s1, s2 |-> s2],
                   out |-> NoOut ]

CodecApply(op, out) ==
    /\ codec.op = "none"
    /\ codec.in # NoOut
    /\ codec' = [codec EXCEPT !.op = op, !.out = out]
    /\ UNCHANGED <<hsVars, rmVars, dvVars>>

\* setField applied twice to the same field, and once
CodecSetTwice ==
    LET i == codec.in
    IN CodecApply("setTwice",
          [ op |-> "setTwice",
            twice |-> FLD_SET_DRF(i.d, i.s2, FLD_SET_DRF(i.d, i.s1, i.v)),
            once  |-> FLD_SET_DRF(i.d, i.s2, i.v) ])

\* testField applied to the result of setField
CodecRoundTrip ==
    LET i == codec.in
    IN CodecApply("roundTrip",
          [ op |-> "roundTrip",
            test |-> FLD_TEST_DRF(i.d, i.s1, FLD_SET_DRF(i.d, i.s1, i.v)) ])

\* setField on v, testField on v and on w
CodecFrame ==
    LET i == codec.in
    IN CodecApply("frame",
          [ op |-> "frame",
            set   |-> FLD_SET_DRF(i.d, i.s1, i.v),
            testV |-> FLD_TEST_DRF(i.d, i.s1, i.v),
            testW |-> FLD_TEST_DRF(i.d, i.s1, i.w) ])

\* line 70 on an entry read v: the value the handshake writes at line 71,
\* and line 70 applied to that value again
CodecRequest ==
    LET i == codec.in
    IN CodecApply("request",
          [ op |-> "request",
            written |-> RequestSet(i.v),
            again   |-> RequestSet(RequestSet(i.v)) ])

\* lines 143-145 on a value whose ALLOW field has been set to YES
CodecAllowed ==
    LET i == codec.in
    IN CodecApply("allowed",
          [ op |-> "allowed",
            test |-> kbifPreOsCheckErotGrantAllowed_AD102(
                        FLD_SET_DRF(GRANT_ALLOW, ALLOW_YES, i.v)) ])

(***************************************************************************)
(* Specifications.  The handshake touches only the grant register and      *)
(* kbifInitXveRegMap_AD102 only pKernelBif->xveRegmapRef, so each is       *)
(* explored on its own, on an attached AD102 device; DeviceSpec runs both  *)
(* through the device's binding, from attach to detach.                    *)
(***************************************************************************)
HsStep == HsEntry \/ HsCheck \/ HsWrite \/ PollCheck \/ PollDeadline \/ HsReturn

\* an attached AD102 device on which nothing has been called yet
Init ==
    /\ HsInit
    /\ RmInit
    /\ attached = "AD102"
    /\ binding = HalTable["AD102"]
    /\ CdIdle

\* the handshake and the controller
Next == HsEntry \/ HsCheck \/ HsWrite \/ PollCheck \/ PollDeadline \/ HsReturn
           \/ Controller
Spec == Init /\ [][Next]_vars

\* the handshake thread keeps running once called
FairSpec == Spec /\ WF_vars(HsCheck \/ HsWrite \/ PollCheck \/ PollDeadline \/ HsReturn)

\* any sequence of kbifInitXveRegMap_AD102 calls
RegMapNext == kbifInitXveRegMap_AD102
RegMapSpec == Init /\ [][RegMapNext]_vars

\* the life of device instances: attach, register maps, handshake, detach
DeviceInit ==
    /\ HsInit
    /\ hwReg \in { {}, DRF_NUM(GRANT_VALID, VALID_YES) }
    /\ RmInit
    /\ DvInit
    /\ CdIdle
DeviceNext ==
    \/ DevAttach \/ DevDetach
    \/ DevInitXveRegMap \/ DevInitXveRegMapOlder
    \/ DevHsEntry \/ DevHsCheck \/ DevHsWrite
    \/ DevPollCheck \/ DevPollDeadline \/ DevHsReturn
    \/ DevController
DeviceSpec == DeviceInit /\ [][DeviceNext]_vars

\* the codec operations on every drawn input
CodecInit ==
    /\ HsInit
    /\ hwReg = {}
    /\ RmInit
    /\ DvInit
    /\ CdDraw
CodecNext ==
    CodecSetTwice \/ CodecRoundTrip \/ CodecFrame \/ CodecRequest \/ CodecAllowed
CodecSpec == CodecInit /\ [][CodecNext]_vars

(***************************************************************************)
(* Properties.                                                             *)
(***************************************************************************)
ValidNo(r)  == FLD_TEST_DRF(GRANT_VALID, VALID_NO, r)
ValidYes(r) == FLD_TEST_DRF(GRANT_VALID, VALID_YES, r)
AllowNo(r)  == FLD_TEST_DRF(GRANT_ALLOW, ALLOW_NO, r)
AllowYes(r) == FLD_TEST_DRF(GRANT_ALLOW, ALLOW_YES, r)
Called == pc # "idle"
Done   == pc = "done"

\* C1: when the entry read has VALID=NO the handshake returns NV_OK at once:
\* it makes no further read, no write and no poll, whatever the other bits of
\* the value read are.
C1_NoErotNoSideEffect ==
    (Called /\ ValidNo(entryReg)) =>
        /\ Done
        /\ status = NV_OK
        /\ nReads = 1
        /\ nWrites = 0
        /\ pollAllow = <<>>
        /\ nSleeps = 0

C1_Witness ==
    /\ Done
    /\ ValidNo(entryReg)
    /\ AllowNo(entryReg)
    /\ OtherBits \subseteq entryReg
    /\ ctrlActed

\* C2: when the entry read has VALID=YES and the already-granted check reads
\* ALLOW=YES the handshake returns NV_OK without a write or a poll; so a call
\* made on a granted register that the controller leaves alone returns NV_OK
\* and leaves the register as it was.
C2_AlreadyGranted ==
    /\ (Called /\ nReads = 2 /\ ValidYes(entryReg) /\ AllowYes(lastRead)) =>
          /\ Done
          /\ status = NV_OK
          /\ nWrites = 0
          /\ pollAllow = <<>>
    /\ (Done /\ ValidYes(entryReg) /\ AllowYes(entryReg) /\ ~ctrlActed) =>
          /\ status = NV_OK
          /\ nWrites = 0
          /\ hwReg = entryReg

C2_Witness ==
    /\ Done
    /\ ValidYes(entryReg)
    /\ AllowYes(entryReg)
    /\ FLD_TEST_DRF(GRANT_REQUEST, REQUEST_SET, entryReg)
    /\ ~ctrlActed
    /\ nReads = 2

\* the request path was taken from an entry read with VALID=YES, ALLOW=NO
RequestedFromNotAllowed ==
    ValidYes(entryReg) /\ AllowNo(entryReg) /\ nWrites = 1

\* C3: from VALID=YES, ALLOW=NO, when the controller sets ALLOW to YES during
\* the poll, before the deadline, and keeps it, the handshake returns NV_OK;
\* when the controller never sets ALLOW to YES it returns NV_ERR_TIMEOUT.
C3_GrantOrTimeout ==
    /\ (Done /\ RequestedFromNotAllowed /\ grantInTime) => status = NV_OK
    /\ (Done /\ RequestedFromNotAllowed /\ ~ctrlGranted) => status = NV_ERR_TIMEOUT

C3_Witness ==
    /\ Done
    /\ RequestedFromNotAllowed
    /\ grantInTime
    /\ Len(pollAllow) = 3
    /\ status = NV_OK

\* C4: the handshake returns NV_OK after an entry read with VALID=YES only
\* when its last read of the register had ALLOW=YES, and it returns
\* NV_ERR_TIMEOUT when it polled and no read of the poll saw ALLOW=YES.
C4_OkOnlyIfAllowed ==
    /\ (Done /\ status = NV_OK /\ ValidYes(entryReg)) => AllowYes(lastRead)
    /\ (Done /\ pollAllow # <<>>
          /\ \A i \in 1..Len(pollAllow) : pollAllow[i] # Bits(ALLOW_YES))
         => status = NV_ERR_TIMEOUT

C4_Witness ==
    /\ Done
    /\ status = NV_OK
    /\ ValidYes(entryReg)
    /\ Len(pollAllow) >= 2
    /\ ~AllowYes(hwReg)

\* C5: every invocation of the handshake terminates, whatever the controller
\* does, and it terminates with NV_OK or NV_ERR_TIMEOUT; in particular a poll
\* whose predicate is false at every check ends with NV_ERR_TIMEOUT.
C5_Terminates ==
    [](Called => <>(Done /\ status \in {NV_OK, NV_ERR_TIMEOUT}))

C5_Witness ==
    /\ Done
    /\ status = NV_ERR_TIMEOUT
    /\ Len(pollAllow) = 3
    /\ ctrlActed

\* C6: the poll evaluates the predicate before it looks at the deadline: when
\* the first read of the poll has ALLOW=YES the result is NV_OK after that one
\* read and without a sleep, also with a timeout of zero.
C6_PredicateFirst ==
    (pollAllow # <<>> /\ pollAllow[1] = Bits(ALLOW_YES)) =>
        /\ pc \in {"ret", "done"}
        /\ status = NV_OK
        /\ Len(pollAllow) = 1
        /\ nSleeps = 0

C6_Witness ==
    /\ Done
    /\ timeout = 0
    /\ pollAllow = <<Bits(ALLOW_YES)>>
    /\ status = NV_OK

\* C7: once the MSI-X buffer of entry 0 is non-null no call changes it, a
\* call with func 0 that finds it non-null asks the allocator for nothing,
\* and at most one allocation succeeds for the device.
C7_MsixTableKept ==
    [][ /\ (xveRegmapRef[0].bufMsixTable # NullBuf =>
               /\ xveRegmapRef'[0].bufMsixTable = xveRegmapRef[0].bufMsixTable
               /\ allocSizes' = <<>>
               /\ nAllocOk' = nAllocOk)
        /\ nAllocOk' <= 1 ]_vars

C7_Witness ==
    /\ lastFunc = <<0>>
    /\ preRegmap[0].bufMsixTable # NullBuf
    /\ retStatus = NV_OK
    /\ xveRegmapRef[0].bufMsixTable.size # MsixTableSize(ctlSize)

\* C8: a call with a func other than 0 and 1 returns NV_ERR_INVALID_ARGUMENT,
\* trips an assertion, leaves both entries as they were and allocates nothing.
C8_InvalidFunc ==
    (lastFunc # <<>> /\ lastFunc[1] \notin {0, 1}) =>
        /\ retStatus = NV_ERR_INVALID_ARGUMENT
        /\ rmAsserted = 1
        /\ xveRegmapRef = preRegmap
        /\ allocSizes = <<>>

C8_Witness ==
    /\ lastFunc = <<255>>
    /\ preRegmap[0].bufMsixTable # NullBuf
    /\ preRegmap[1].nFunc = 1

\* entry 0 has its mask tables and boot-config pointer set
Fn0Populated(e) ==
    /\ e.xveRegMapValid # "NULL"
    /\ e.xveRegMapWrite # "NULL"
    /\ e.bufBootConfigSpace # "NULL"

\* the latest call had func 0 and its allocation failed
Fn0AllocFailed ==
    lastFunc = <<0>> /\ allocSizes # <<>> /\ xveRegmapRef[0].bufMsixTable = NullBuf

\* C9: when the allocation of the MSI-X buffer fails the call returns
\* NV_ERR_NO_MEMORY and entry 0 is not left with its mask tables and
\* boot-config pointer set while it has no MSI-X buffer.
C9_NoPartialState ==
    Fn0AllocFailed =>
        /\ retStatus = NV_ERR_NO_MEMORY
        /\ ~(Fn0Populated(xveRegmapRef[0]) /\ xveRegmapRef[0].bufMsixTable = NullBuf)

\* C10: a call with func 1 calls the GM107 variant exactly once, with func 1,
\* returns the status that variant returned, leaves entry 0 as it was and
\* allocates nothing.
C10_Fn1Delegates ==
    lastFunc = <<1>> =>
        /\ gm107Args = <<1>>
        /\ retStatus = gm107Ret
        /\ xveRegmapRef[0] = preRegmap[0]
        /\ allocSizes = <<>>

C10_Witness ==
    /\ lastFunc = <<1>>
    /\ retStatus = NV_ERR_GENERIC
    /\ Fn0Populated(preRegmap[0])
    /\ preRegmap[0].bufMsixTable # NullBuf

\* the device is bound to the implementations of this file
OnAD102 == attached = "AD102"

\* C11: while a device instance is attached exactly one implementation is
\* bound to each of the two operations, the one the dispatch table gives for
\* the device's architecture, and no step between attach and detach changes
\* it; every call for func 1 on an AD102 device is routed to the GM107
\* variant, with func 1.
C11_BindingStable ==
    [][ /\ (attached # "none" /\ attached' # "none") =>
              (attached' = attached /\ binding' = binding)
        /\ attached' # "none" =>
              /\ binding' = HalTable[attached']
              /\ binding'.grantRequest # "none"
              /\ binding'.initXveRegMap # "none"
        /\ (OnAD102' /\ lastFunc' = <<1>>) => gm107Args' = <<1>> ]_vars

C11_Witness ==
    /\ OnAD102
    /\ binding = HalTable["AD102"]
    /\ lastFunc = <<1>>
    /\ preRegmap[1] # ZeroEntry
    /\ gm107Args = <<1>>
    /\ Done
    /\ nWrites = 1

\* C12: setting a field twice gives what setting it once to the second state
\* gives, for every value, descriptor and pair of states of the field; in
\* particular line 70 applied twice gives what it gives applied once.
C12_SetFieldIdempotent ==
    /\ codec.op = "setTwice" => codec.out.twice = codec.out.once
    /\ codec.op = "request" => codec.out.again = codec.out.written

C12_Witness ==
    /\ codec.op = "setTwice"
    /\ codec.in.d = [shift |-> 4, width |-> 3]
    /\ codec.in.s1 = 5
    /\ codec.in.s2 = 2
    /\ codec.in.v = BitPos
    /\ codec.out.once = BitPos \ {4, 6}

\* C13 as stated: testing a field for the state it has just been set to is
\* true for every value and every descriptor the codec accepts, the
\* descriptor whose mask selects no bit included.
C13_RoundTripAnyDescriptor ==
    codec.op = "roundTrip" => codec.out.test

\* C13, amended: testing a field for the state it has just been set to is
\* true for every value and every descriptor whose mask selects at least one
\* bit; for a mask that selects no bit the test is false.  In particular the
\* test of lines 143-145 is true of any value whose ALLOW field was set to YES.
C13_RoundTrip ==
    /\ codec.op = "roundTrip" =>
          (codec.out.test <=> DRF_SHIFTMASK(codec.in.d) # {})
    /\ codec.op = "allowed" => codec.out.test

C13_Witness ==
    /\ codec.op = "roundTrip"
    /\ codec.in.d = [shift |-> 30, width |-> 2]
    /\ codec.in.s1 = 2
    /\ codec.in.v = {4, 6, 31}
    /\ codec.out.test

\* C14: an invocation writes the grant register at most once and calls the
\* wait at most once; the poll reads the register only after that one write;
\* an invocation that went through the request path, a timed-out one
\* included, ends with exactly one write and one wait.
C14_OneWriteOnePoll ==
    /\ nWrites <= 1
    /\ nWaits <= 1
    /\ (InPoll \/ pc = "ret" \/ pollAllow # <<>>) => (nWrites = 1 /\ nWaits = 1)
    /\ (Done /\ status = NV_ERR_TIMEOUT) => (nWrites = 1 /\ nWaits = 1)
    /\ (Done /\ nReads > 2) => (nWrites = 1 /\ nWaits = 1)
    /\ pc \in {"check", "write"} => (nWrites = 0 /\ nWaits = 0 /\ pollAllow = <<>>)

C14_Witness ==
    /\ Done
    /\ status = NV_ERR_TIMEOUT
    /\ nWrites = 1
    /\ nWaits = 1
    /\ Len(pollAllow) = 3
    /\ hsPrinted = 1

\* C15: the handshake's write changes only the REQUEST field of what the
\* register holds at the time of the write: the value stored is the
\* register's current content with REQUEST set, whatever the controller
\* stored after the entry read.
C15_WriteOnlyChangesRequest ==
    [][ nWrites' = nWrites + 1 => hwReg' = RequestSet(hwReg) ]_vars

\* C16: after a call with func 0 that returned NV_OK, entry 0 has nFunc 0,
\* the AD102 valid and write tables with their element counts, the device's
\* boot-config cache and a non-NULL MSI-X buffer, whatever calls came before.
C16_Fn0Postcondition ==
    (lastFunc = <<0>> /\ retStatus = NV_OK) =>
        LET e == xveRegmapRef[0]
        IN /\ e.nFunc = 0
           /\ e.xveRegMapValid = "xveRegMapValid"
           /\ e.numXveRegMapValid = Len(RegMapTables[e.xveRegMapValid])
           /\ e.xveRegMapWrite = "xveRegMapWrite"
           /\ e.numXveRegMapWrite = Len(RegMapTables[e.xveRegMapWrite])
           /\ e.bufBootConfigSpace = "gpuBootConfigSpace"
           /\ e.bufMsixTable # NullBuf

C16_Witness ==
    /\ lastFunc = <<0>>
    /\ retStatus = NV_OK
    /\ preRegmap[1] # ZeroEntry
    /\ Fn0Populated(preRegmap[0])
    /\ preRegmap[0].bufMsixTable = NullBuf
    /\ xveRegmapRef[0].bufMsixTable # NullBuf

\* C17: a call with func 0, whether it returns NV_OK or NV_ERR_NO_MEMORY,
\* leaves entry 1 exactly as it was.
C17_Fn0KeepsFn1 ==
    lastFunc = <<0>> =>
        /\ retStatus \in {NV_OK, NV_ERR_NO_MEMORY}
        /\ xveRegmapRef[1] = preRegmap[1]

C17_Witness ==
    /\ lastFunc = <<0>>
    /\ retStatus = NV_ERR_NO_MEMORY
    /\ preRegmap[1] # ZeroEntry
    /\ xveRegmapRef[1].nFunc = 1

\* controlSize * 4 * sizeof(NvU32) without wrap-around
ExactMsixTableSize(controlSize) == ShiftLeft(controlSize, 4, 64)

\* C18: the size asked of the allocator is controlSize * 4 * 4 for every
\* 32-bit controlSize, without wrap-around, and a buffer kept from an earlier
\* call has the size the current call's controlSize requires.
C18_ExactSize ==
    lastFunc = <<0>> =>
        /\ allocSizes # <<>> => allocSizes[1] = ExactMsixTableSize(ctlSize)
        /\ (allocSizes = <<>> /\ xveRegmapRef[0].bufMsixTable # NullBuf) =>
              xveRegmapRef[0].bufMsixTable.size = ExactMsixTableSize(ctlSize)

\* the wait of the latest invocation ended at an expired deadline with the
\* predicate false at its last evaluation
PollTimedOut ==
    /\ nWaits = 1
    /\ pollAllow # <<>>
    /\ pollAllow[Len(pollAllow)] # Bits(ALLOW_YES)
    /\ elapsed >= timeout

C20_FieldFrame ==
    /\ codec.op = "frame" =>
          LET m == DRF_SHIFTMASK(codec.in.d)
          IN /\ codec.out.set \ m = codec.in.v \ m
             /\ (codec.in.v \cap m = codec.in.w \cap m) =>
                   (codec.out.testV = codec.out.testW)
    /\ codec.op = "request" =>
          LET m == DRF_SHIFTMASK(GRANT_REQUEST)
          IN /\ codec.out.written \ m = codec.in.v \ m
             /\ FLD_TEST_DRF(GRANT_REQUEST, REQUEST_SET, codec.out.written)

C20_Witness ==
    /\ codec.op = "frame"
    /\ codec.in.d = [shift |-> 4, width |-> 3]
    /\ codec.in.v = {4, 6, 31}
    /\ codec.in.w = {1, 4, 6}
    /\ codec.in.s1 = 5
    /\ codec.out.testV
    /\ codec.out.testW
    /\ codec.out.set = codec.in.v

====
